---- MODULE Spec2Model ----
(***************************************************************************)
(* Model of kirara_ai/mcp/server.py: MCPServer, the client of one MCP      *)
(* server.  connect(), disconnect() and the background coroutine           *)
(* _lifecycle_manager() run on one asyncio event loop: a step of the model *)
(* is the code one coroutine runs between two suspensions (await points    *)
(* that really suspend).                                                   *)
(*                                                                         *)
(* Scheduling.  asyncio runs everything that is ready (a resumed waiter, a *)
(* freshly created task, a task a cancellation was sent to) before the     *)
(* callbacks of I/O and timers it polls afterwards; I/O completions and    *)
(* timeouts are therefore taken only when nothing is ready (Quiet).  The   *)
(* order among the ready coroutines, and the moments at which callers      *)
(* issue connect()/disconnect(), are left open.                            *)
(***************************************************************************)
EXTENDS Integers, Sequences, FiniteSets, TLC

\* ---- bounds of the model ------------------------------------------------
NumClients == 2      \* MCPServer instances
NumCallers == 2      \* coroutines that call connect()/disconnect()
MaxTasks == 2        \* lifecycle task objects alive at a time (all clients together)
NumConnectors == 1   \* callers that call connect() in LiveSpec (the others disconnect())

Clients == 1..NumClients
Callers == 1..NumCallers
TaskIds == 1..MaxTasks
Connectors == 1..NumConnectors

\* MCPConnectionState
DISCONNECTED == "DISCONNECTED"
CONNECTING == "CONNECTING"
CONNECTED == "CONNECTED"
DISCONNECTING == "DISCONNECTING"
ERROR == "ERROR"
MCPConnectionState == {DISCONNECTED, CONNECTING, CONNECTED, DISCONNECTING, ERROR}

\* server_config.connection_type: the two supported kinds and any other value
ConnectionTypes == {"stdio", "sse", "other"}

VARIABLES
    connection_type,  \* [client -> server_config.connection_type], never changed
    state,            \* [client -> self.state]
    session,          \* [client -> self.session]: 0 is None, else the task that built it
    shutdown_event,   \* [client -> self._shutdown_event is set]
    connected_event,  \* [client -> self._connected_event is set]
    lifecycle_task,   \* [client -> self._lifecycle_task]: 0 is None, else a task id
    tasks,            \* [task id -> the lifecycle task's record]
    callers,          \* [caller -> the record of its current call]
    owner,            \* [caller -> the client it calls], 0: the caller is not used
    lastret,          \* [client -> result of the latest connect() that returned with
                      \*  no disconnect() running or started since], "none" otherwise
    rpc,              \* the call of an operation of the RPC facade that is under way
    push,             \* the run of message_handler_callback that is under way
    exec              \* the run of MCPCallTool.execute that is under way

vars == <<connection_type, state, session, shutdown_event, connected_event,
          lifecycle_task, tasks, callers, owner, lastret, rpc, push, exec>>

\* ---- records ------------------------------------------------------------
\* A lifecycle task (one run of _lifecycle_manager).
\*   pc     none: not created; new: created by create_task, not yet run;
\*          opening: in enter_async_context(self._client);
\*          handshake: in session.initialize(); running: in _shutdown_event.wait();
\*          closing: in exit_stack.aclose(); done
\*   wake   the future of its _shutdown_event.wait() is resolved
\*   cancel no; req: Task.cancel() called, CancelledError not yet thrown;
\*          body: CancelledError was thrown into the try body;
\*          cleanup: CancelledError was thrown into exit_stack.aclose()
\*   stack  what exit_stack holds, in acquisition order
\*   rel    what exit_stack.aclose() released, in release order
\*   fail   where the try body raised: none, kind, open, session, handshake
\*   hs     session.initialize() returned
\*   res    how the task ended: ok, cancelled, exc (an exception left the coroutine)
NoTask ==
    [cl |-> 0, pc |-> "none", wake |-> FALSE, cancel |-> "no", stack |-> <<>>,
     rel |-> <<>>, fail |-> "none", hs |-> FALSE, res |-> "none"]

\* A caller.
\*   pc     idle; c_wait: connect() in wait_for(_connected_event.wait(), 30);
\*          d_wait: disconnect() in wait_for(_lifecycle_task, 10);
\*          d_tmo: that wait_for timed out, cancelled the task and waits for it;
\*          d_cancel: disconnect() in "await self._lifecycle_task" after cancel();
\*          done: the call has returned (or raised) and the caller holds the result
\*   op     the call the caller made: connect, disconnect
\*   inner  connect() timed out and is running its internal disconnect()
\*   woken  no; ready / failed: the future of its _connected_event.wait() was
\*          resolved by the set() of the success path / of the except block
\*   aw     the task the disconnect() awaits
\*   ct     self._lifecycle_task when the accepted connect() started waiting
\*   new    the connect() created that task
\*   prev   lastret of the client when the call was made
\*   jt     the call's own wait_for(_lifecycle_task, 10) timed out
\*   intr   a disconnect() was called on the client while this connect() waited
\*   ret    none, true, false, raised (an exception left the call)
Idle ==
    [pc |-> "idle", op |-> "none", inner |-> FALSE, woken |-> "no", aw |-> 0,
     ct |-> 0, new |-> FALSE, prev |-> "none", jt |-> FALSE, intr |-> FALSE, ret |-> "none"]

\* Mutant: an exit stack that releases in the order of acquisition.
ReverseNot(s) == s

\* The order in which AsyncExitStack calls the exits of what it holds (s).
Reverse(s) == [i \in 1..Len(s) |-> s[Len(s) + 1 - i]]

TaskDone(t) == t # 0 /\ tasks[t].pc = "done"
TaskActive(t) == tasks[t].pc \notin {"none", "done"}

\* A Task object lives as long as something refers to it: self._lifecycle_task
\* (lt) or a call that awaits it or started it (cs).  Collect forgets the ended
\* tasks nothing refers to; FreeId is the identity a new task gets, 0 if the
\* model has no room for one.
Collect(ts, cs, lt) ==
    [t \in TaskIds |->
        IF /\ ts[t].pc = "done"
           /\ \A c \in Clients : lt[c] # t
           /\ \A k \in Callers : cs[k].aw # t /\ cs[k].ct # t
        THEN NoTask
        ELSE ts[t]]

FreeId(ts) ==
    IF \E t \in TaskIds : ts[t].pc = "none"
    THEN CHOOSE t \in TaskIds : ts[t].pc = "none" /\ \A u \in 1..(t - 1) : ts[u].pc # "none"
    ELSE 0

\* A call of the RPC facade.
\*   cl     the client, 0: no call was made yet
\*   op     the method of MCPServer
\*   args   its arguments
\*   out    what the call did: Facade
NoRpc == [cl |-> 0, op |-> "none", args |-> <<>>,
          out |-> [err |-> "none", calls |-> <<>>, ret |-> <<>>]]

\* A run of message_handler_callback.
\*   cl     the client, 0: no run
\*   msg    the message it was called with
\*   out    what the run did: Dispatch
NoPush == [cl |-> 0, msg |-> [shape |-> "none", kind |-> "none"],
           out |-> [hooks |-> <<>>, logged |-> FALSE, raised |-> FALSE,
                    checkpoint |-> "none"]]

\* A run of MCPCallTool.execute.
\*   pc     idle: no run; done: the run has ended
\*   raw    raw_input
\*   calls  tool_call.message.tool_calls
\*   out    what the run did: Execute
NoExec == [pc |-> "idle", raw |-> <<>>, calls |-> <<>>,
           out |-> [kind |-> "none", messages |-> <<>>, invoked |-> <<>>, origin |-> <<>>]]

\* ---- initial state: MCPServer.__init__ -----------------------------------
InitClient ==
    /\ state = [c \in Clients |-> DISCONNECTED]
    /\ session = [c \in Clients |-> 0]
    /\ shutdown_event = [c \in Clients |-> FALSE]
    /\ connected_event = [c \in Clients |-> FALSE]
    /\ lifecycle_task = [c \in Clients |-> 0]
    /\ tasks = [t \in TaskIds |-> NoTask]
    /\ callers = [k \in Callers |-> Idle]
    /\ lastret = [c \in Clients |-> "none"]
    /\ rpc = NoRpc
    /\ push = NoPush
    /\ exec = NoExec

\* All callers use client 1; the other clients exist and are left alone.
Init ==
    /\ InitClient
    /\ owner = [k \in Callers |-> 1]
    /\ connection_type \in [Clients -> ConnectionTypes]
    /\ \A c \in Clients : c # 1 => connection_type[c] = "stdio"

\* ---- the scheduler ---------------------------------------------------------
\* A coroutine is ready when the event loop has its next step queued.
CallerReady(k) ==
    \/ callers[k].pc = "c_wait" /\ callers[k].woken # "no"
    \/ callers[k].pc \in {"d_wait", "d_tmo", "d_cancel"} /\ TaskDone(callers[k].aw)

TaskReady(t) ==
    \/ tasks[t].pc = "new"
    \/ tasks[t].pc = "running" /\ tasks[t].wake
    \/ tasks[t].pc \in {"opening", "handshake", "running"} /\ tasks[t].cancel = "req"

\* Nothing is ready: the loop polls I/O and timers.
Quiet == (\A k \in Callers : ~CallerReady(k)) /\ (\A t \in TaskIds : ~TaskReady(t))

\* ---- asyncio primitives -----------------------------------------------------
\* Event.set() of _connected_event: resolves the future of every waiter.
WakeConnect(cs, c, cause) ==
    [k \in Callers |->
        IF owner[k] = c /\ cs[k].pc = "c_wait" /\ cs[k].woken = "no"
        THEN [cs[k] EXCEPT !.woken = cause]
        ELSE cs[k]]

\* Mutant: one _shutdown_event for all clients (an attribute of the class).
WakeShutdownShared(ts, c) ==
    [t \in TaskIds |->
        IF ts[t].pc = "running" THEN [ts[t] EXCEPT !.wake = TRUE] ELSE ts[t]]

\* Event.set() of _shutdown_event: resolves the future of the waiting task.
WakeShutdown(ts, c) ==
    [t \in TaskIds |->
        IF ts[t].cl = c /\ ts[t].pc = "running"
        THEN [ts[t] EXCEPT !.wake = TRUE]
        ELSE ts[t]]

\* Mutant: a cancel() that has no effect on the task.
RequestCancelIgnored(ts, t) == ts

\* Task.cancel(): a task that is done ignores it; a task suspended in the try
\* body (or not yet started) gets CancelledError at its next step; a task
\* suspended in exit_stack.aclose() gets it inside aclose().
RequestCancel(ts, t) ==
    IF ts[t].pc \in {"new", "opening", "handshake", "running"}
    THEN [ts EXCEPT ![t].cancel = "req"]
    ELSE IF ts[t].pc = "closing"
    THEN [ts EXCEPT ![t].cancel = "cleanup"]
    ELSE ts

\* ---- _lifecycle_manager -----------------------------------------------------
\* Mutant: no else branch, every connection type is opened.
SupportedAny(ct) == TRUE

\* The connection types the task opens a transport for; any other raises
\* ValueError.
Supported(ct) == ct \in {"stdio", "sse"}

\* What the success path does after initialize() returned.
OnInitialized == [st |-> CONNECTED, set |-> TRUE]

\* Mutant: the except block forgets _connected_event.set().
OnExceptionSilent == [st |-> ERROR, set |-> FALSE]

\* What the except block does.
OnException == [st |-> ERROR, set |-> TRUE]

\* Mutant: the finally block leaves the state as it finds it.
SettleStateKeep(st) == st

\* The last statement of the finally block.
SettleState(st) == IF st = DISCONNECTING THEN DISCONNECTED ELSE st

\* The record of a task that ended: what it waited for and the cancellations
\* sent to it are gone with its frame.
Ended(rec, res) ==
    [rec EXCEPT !.pc = "done", !.stack = <<>>, !.wake = FALSE, !.cancel = "no", !.res = res]

\* Mutant: a finally block that does not close the exit stack.
EnterFinallyNoClose(rec, stk, res) == Ended(rec, res)

\* "session = None" and "await exit_stack.aclose()" of the finally block, for a
\* task whose exit stack is stk: an empty stack closes without suspending and
\* the task ends (res), otherwise the task suspends in aclose().
EnterFinally(rec, stk, res) ==
    IF stk = <<>>
    THEN Ended(rec, res)
    ELSE [rec EXCEPT !.pc = "closing", !.stack = stk]

\* An Exception raised in the try body at a point where the exit stack is stk.
LifecycleExcept(t, c, why, stk) ==
    /\ state' = [state EXCEPT ![c] = OnException.st]
    /\ connected_event' =
           [connected_event EXCEPT ![c] = IF OnException.set THEN TRUE ELSE @]
    /\ callers' = IF OnException.set THEN WakeConnect(callers, c, "failed") ELSE callers
    /\ session' = [session EXCEPT ![c] = 0]
    /\ tasks' = [tasks EXCEPT ![t] = EnterFinally([@ EXCEPT !.fail = why], stk, "ok")]
    /\ UNCHANGED <<connection_type, rpc, push, exec,
                   shutdown_event, lifecycle_task, owner, lastret>>

\* First step of the task.  A task cancelled before it ran never enters the
\* coroutine.  Otherwise it builds self._client, or raises ValueError, and
\* suspends in enter_async_context(self._client).
LifecycleStart(t) ==
    /\ tasks[t].pc = "new"
    /\ LET c == tasks[t].cl IN
       IF tasks[t].cancel = "req"
       THEN /\ tasks' = [tasks EXCEPT ![t] = Ended(@, "cancelled")]
            /\ UNCHANGED <<connection_type, rpc, push, exec, state, session, shutdown_event,
                           connected_event, lifecycle_task, callers, owner, lastret>>
       ELSE IF ~Supported(connection_type[c])
       THEN LifecycleExcept(t, c, "kind", <<>>)
       ELSE /\ tasks' = [tasks EXCEPT ![t].pc = "opening"]
            /\ UNCHANGED <<connection_type, rpc, push, exec, state, session, shutdown_event,
                           connected_event, lifecycle_task, callers, owner, lastret>>

\* The transport is opened and ClientSession entered (its __aenter__ does not
\* suspend), or one of the two raises.
LifecycleOpened(t) ==
    /\ Quiet
    /\ tasks[t].pc = "opening"
    /\ LET c == tasks[t].cl IN
       \/ /\ session' = [session EXCEPT ![c] = t]
          /\ tasks' = [tasks EXCEPT ![t].pc = "handshake",
                                    ![t].stack = <<"transport", "session">>]
          /\ UNCHANGED <<connection_type, rpc, push, exec,
                         state, shutdown_event, connected_event,
                         lifecycle_task, callers, owner, lastret>>
       \/ LifecycleExcept(t, c, "open", <<>>)
       \/ LifecycleExcept(t, c, "session", <<"transport">>)

\* session.initialize() returns or raises.  After a success the task waits for
\* _shutdown_event; if that is already set, wait() returns at once and the task
\* goes on into the finally block in the same step.
LifecycleInitialized(t) ==
    /\ Quiet
    /\ tasks[t].pc = "handshake"
    /\ LET c == tasks[t].cl IN
       \/ /\ state' = [state EXCEPT ![c] = OnInitialized.st]
          /\ connected_event' =
                 [connected_event EXCEPT ![c] = IF OnInitialized.set THEN TRUE ELSE @]
          /\ callers' = IF OnInitialized.set
                        THEN WakeConnect(callers, c, "ready") ELSE callers
          /\ IF shutdown_event[c]
             THEN /\ session' = [session EXCEPT ![c] = 0]
                  /\ tasks' = [tasks EXCEPT ![t].pc = "closing", ![t].hs = TRUE]
             ELSE /\ session' = session
                  /\ tasks' = [tasks EXCEPT ![t].pc = "running", ![t].hs = TRUE]
          /\ UNCHANGED <<connection_type, rpc, push, exec, shutdown_event, lifecycle_task,
                         owner, lastret>>
       \/ LifecycleExcept(t, c, "handshake", tasks[t].stack)

\* _shutdown_event.wait() returns: the finally block clears the session and
\* suspends in exit_stack.aclose().
LifecycleShutdown(t) ==
    /\ tasks[t].pc = "running"
    /\ tasks[t].wake
    /\ tasks[t].cancel # "req"
    /\ session' = [session EXCEPT ![tasks[t].cl] = 0]
    /\ tasks' = [tasks EXCEPT ![t].pc = "closing"]
    /\ UNCHANGED <<connection_type, rpc, push, exec, state, shutdown_event, connected_event,
                   lifecycle_task, callers, owner, lastret>>

\* Mutant: a CancelledError in the try body ends the task at once, as if the
\* cleanup stood after the try statement and not in a finally block.
LifecycleCancelledNoFinally(t) ==
    /\ tasks[t].pc \in {"opening", "handshake", "running"}
    /\ tasks[t].cancel = "req"
    /\ tasks' = [tasks EXCEPT ![t] = Ended(@, "cancelled")]
    /\ UNCHANGED <<connection_type, rpc, push, exec,
                   state, session, shutdown_event, connected_event,
                   lifecycle_task, callers, owner, lastret>>

\* CancelledError is thrown into the try body: "except Exception" does not
\* catch it, the finally block runs.
LifecycleCancelled(t) ==
    /\ tasks[t].pc \in {"opening", "handshake", "running"}
    /\ tasks[t].cancel = "req"
    /\ LET c == tasks[t].cl
           rec == EnterFinally([tasks[t] EXCEPT !.cancel = "body"], tasks[t].stack,
                               "cancelled")
       IN /\ session' = [session EXCEPT ![c] = 0]
          /\ tasks' = [tasks EXCEPT ![t] = rec]
          /\ state' = [state EXCEPT ![c] = IF rec.pc = "done" THEN SettleState(@) ELSE @]
    /\ UNCHANGED <<connection_type, rpc, push, exec,
                   shutdown_event, connected_event, lifecycle_task,
                   callers, owner, lastret>>

\* exit_stack.aclose() ends: the resources are released in reverse order of
\* acquisition.  It returns, and the state is settled; or a CancelledError
\* thrown into it, or an exception of an exit callback, leaves the coroutine
\* before the state is settled.
LifecycleClosed(t) ==
    /\ Quiet
    /\ tasks[t].pc = "closing"
    /\ LET c == tasks[t].cl
           rec == [tasks[t] EXCEPT !.rel = Reverse(tasks[t].stack)]
       IN \/ /\ tasks[t].cancel # "cleanup"
             /\ state' = [state EXCEPT ![c] = SettleState(@)]
             /\ tasks' = [tasks EXCEPT ![t] =
                    Ended(rec, IF tasks[t].cancel = "body" THEN "cancelled" ELSE "ok")]
          \/ /\ tasks[t].cancel = "cleanup"
             /\ state' = state
             /\ tasks' = [tasks EXCEPT ![t] = Ended(rec, "cancelled")]
          \/ /\ state' = state
             /\ tasks' = [tasks EXCEPT ![t] = Ended(rec, "exc")]
    /\ UNCHANGED <<connection_type, rpc, push, exec, session, shutdown_event, connected_event,
                   lifecycle_task, callers, owner, lastret>>

\* ---- connect() and disconnect() ----------------------------------------------
\* A disconnect() of client c is suspended (between its first and last statement).
Disconnecting(cs, c) ==
    \E k \in Callers : owner[k] = c /\ cs[k].pc \in {"d_wait", "d_tmo", "d_cancel"}

\* The record of a caller whose call ended with result r of the function that
\* ended it: connect() answers False whatever its internal disconnect() returned,
\* and lets a BaseException of it through.
Returned(rec, r) ==
    [rec EXCEPT !.pc = "done", !.woken = "no", !.aw = 0,
                !.ret = IF rec.op = "connect" /\ rec.inner /\ r # "raised" THEN "false" ELSE r]

\* lastret after caller k's call on client c ended, leaving the callers cs.
LastRet(cs, c, k) ==
    IF cs[k].op = "connect" /\ cs[k].ret \in {"true", "false"} /\ ~Disconnecting(cs, c)
    THEN cs[k].ret
    ELSE "none"

\* Every connect() of client c that waits, other than k's, has seen a disconnect().
Interrupt(cs, c, k) ==
    [j \in Callers |->
        IF j # k /\ owner[j] = c /\ cs[j].pc = "c_wait"
        THEN [cs[j] EXCEPT !.intr = TRUE]
        ELSE cs[j]]

\* Mutants of the guard of connect(): DISCONNECTING forgotten; CONNECTED forgotten.
ConnectRefusedNotDisconnecting(c) == state[c] \in {CONNECTING, CONNECTED}
ConnectRefusedNotConnected(c) == state[c] \in {CONNECTING, DISCONNECTING}

\* The guard of connect(): the call is refused.
ConnectRefused(c) == state[c] # DISCONNECTED /\ state[c] # ERROR

\* Mutant: connect() creates a task without looking at the one it has.
NeedsNewTaskAlways(c) == TRUE

\* connect() creates a lifecycle task.
NeedsNewTask(c) == lifecycle_task[c] = 0 \/ TaskDone(lifecycle_task[c])

\* Mutant: connect() takes every state but ERROR for a success.
ConnectSucceededUnlessError(c) == state[c] # ERROR

\* The result of a connect() whose wait on _connected_event returned.
ConnectSucceeded(c) == state[c] = CONNECTED

\* Mutant: disconnect() without its guard.
DisconnectNoopNever(c) == FALSE

\* The guard of disconnect(): nothing to do.
DisconnectNoop(c) == state[c] = DISCONNECTED

\* Mutant: disconnect() reports the end of its wait as an error.
JoinedStateError == ERROR

\* The state disconnect() leaves after its wait for the lifecycle task.
JoinedState == DISCONNECTED

\* The state the "except Exception" of disconnect() leaves.
DisconnectFailedState == ERROR

\* connect() up to its suspension in wait_for(self._connected_event.wait(), 30).
ConnectCall(k) ==
    /\ callers[k].pc = "idle"
    /\ owner[k] # 0
    /\ LET c == owner[k] IN
       IF ConnectRefused(c)
       THEN /\ callers' = [callers EXCEPT ![k] =
                   [Idle EXCEPT !.pc = "done", !.op = "connect", !.ret = "false",
                                !.prev = lastret[c]]]
            /\ lastret' = [lastret EXCEPT ![c] = LastRet(callers', c, k)]
            /\ UNCHANGED <<connection_type, rpc, push, exec, state, session, shutdown_event,
                           connected_event, lifecycle_task, tasks, owner>>
       ELSE LET new == NeedsNewTask(c)
                live == Collect(tasks, callers, [lifecycle_task EXCEPT ![c] = 0])
                id == FreeId(live)
            IN /\ new => id # 0
               /\ state' = [state EXCEPT ![c] = CONNECTING]
               /\ shutdown_event' = [shutdown_event EXCEPT ![c] = FALSE]
               /\ connected_event' = [connected_event EXCEPT ![c] = FALSE]
               /\ tasks' = IF new
                           THEN [live EXCEPT ![id] = [NoTask EXCEPT !.cl = c, !.pc = "new"]]
                           ELSE tasks
               /\ lifecycle_task' = [lifecycle_task EXCEPT ![c] = IF new THEN id ELSE @]
               /\ callers' = [callers EXCEPT ![k] =
                      [Idle EXCEPT !.pc = "c_wait", !.op = "connect",
                                   !.ct = lifecycle_task'[c], !.new = new,
                                   !.prev = lastret[c]]]
               /\ lastret' = [lastret EXCEPT ![c] = "none"]
               /\ UNCHANGED <<connection_type, rpc, push, exec, session, owner>>

\* wait_for returned: _connected_event was set while the call waited.
ConnectResume(k) ==
    /\ callers[k].pc = "c_wait"
    /\ callers[k].woken # "no"
    /\ LET c == owner[k] IN
       /\ callers' = [callers EXCEPT ![k] =
              Returned(@, IF ConnectSucceeded(c) THEN "true" ELSE "false")]
       /\ lastret' = [lastret EXCEPT ![c] = LastRet(callers', c, k)]
    /\ UNCHANGED <<connection_type, rpc, push, exec,
                   state, session, shutdown_event, connected_event,
                   lifecycle_task, tasks, owner>>

\* disconnect() up to its suspension in wait_for(self._lifecycle_task, 10), or
\* to its end when there is no task to wait for; rec is the caller's record on
\* entry (the internal disconnect() of a timed-out connect() has rec.inner).
DisconnectEnter(k, c, rec) ==
    IF DisconnectNoop(c)
    THEN /\ callers' = [Interrupt(callers, c, k) EXCEPT ![k] = Returned(rec, "true")]
         /\ lastret' = [lastret EXCEPT ![c] = LastRet(callers', c, k)]
         /\ UNCHANGED <<connection_type, rpc, push, exec, state, session, shutdown_event,
                        connected_event, lifecycle_task, tasks, owner>>
    ELSE LET h == lifecycle_task[c] IN
         /\ shutdown_event' = [shutdown_event EXCEPT ![c] = TRUE]
         /\ tasks' = WakeShutdown(tasks, c)
         /\ IF h # 0 /\ ~TaskDone(h)
            THEN /\ state' = [state EXCEPT ![c] = DISCONNECTING]
                 /\ callers' = [Interrupt(callers, c, k) EXCEPT ![k] =
                        [rec EXCEPT !.pc = "d_wait", !.aw = h]]
            ELSE /\ state' = [state EXCEPT ![c] = JoinedState]
                 /\ callers' = [Interrupt(callers, c, k) EXCEPT ![k] = Returned(rec, "true")]
         /\ lastret' = [lastret EXCEPT ![c] = LastRet(callers', c, k)]
         /\ UNCHANGED <<connection_type, rpc, push, exec,
                        session, connected_event, lifecycle_task,
                        owner>>

DisconnectCall(k) ==
    /\ callers[k].pc = "idle"
    /\ owner[k] # 0
    /\ DisconnectEnter(k, owner[k],
                       [Idle EXCEPT !.op = "disconnect", !.prev = lastret[owner[k]]])

\* wait_for(self._connected_event.wait(), 30) raises TimeoutError: connect()
\* awaits self.disconnect() and then returns False.
ConnectTimeout(k) ==
    /\ Quiet
    /\ callers[k].pc = "c_wait"
    /\ callers[k].woken = "no"
    /\ DisconnectEnter(k, owner[k], [callers[k] EXCEPT !.inner = TRUE])

\* The end of a disconnect(): the state it leaves (st) and its result.
DisconnectEnd(k, st, r) ==
    LET c == owner[k] IN
    /\ state' = [state EXCEPT ![c] = st]
    /\ callers' = [callers EXCEPT ![k] = Returned(@, r)]
    /\ lastret' = [lastret EXCEPT ![c] = LastRet(callers', c, k)]

\* The awaited task ended before the timeout: wait_for returns, or raises what
\* the task raised.  "except Exception" catches an exception of the cleanup;
\* the CancelledError of a task that another call cancelled is a BaseException
\* and leaves disconnect() (and a connect() around it).
DisconnectJoined(k) ==
    /\ callers[k].pc = "d_wait"
    /\ TaskDone(callers[k].aw)
    /\ LET res == tasks[callers[k].aw].res IN
       CASE res = "ok" -> DisconnectEnd(k, JoinedState, "true")
         [] res = "exc" -> DisconnectEnd(k, DisconnectFailedState, "false")
         [] OTHER -> DisconnectEnd(k, state[owner[k]], "raised")
    /\ UNCHANGED <<connection_type, rpc, push, exec, session, shutdown_event, connected_event,
                   lifecycle_task, tasks, owner>>

\* The 10 s of wait_for(self._lifecycle_task, 10) elapse: wait_for cancels the
\* task and waits until it has ended.
DisconnectTimeout(k) ==
    /\ Quiet
    /\ callers[k].pc = "d_wait"
    /\ ~TaskDone(callers[k].aw)
    /\ tasks' = RequestCancel(tasks, callers[k].aw)
    /\ callers' = [callers EXCEPT ![k].pc = "d_tmo", ![k].jt = TRUE]
    /\ UNCHANGED <<connection_type, rpc, push, exec,
                   state, session, shutdown_event, connected_event,
                   lifecycle_task, owner, lastret>>

\* The cancelled task has ended: wait_for raises TimeoutError, or the exception
\* of the task's cleanup.  The handler cancels and awaits self._lifecycle_task,
\* read again: it is done, or it is a task a later connect() created.
DisconnectTimedOut(k) ==
    /\ callers[k].pc = "d_tmo"
    /\ TaskDone(callers[k].aw)
    /\ LET c == owner[k]
           h == lifecycle_task[c]
       IN IF tasks[callers[k].aw].res = "exc"
          THEN /\ DisconnectEnd(k, DisconnectFailedState, "false")
               /\ tasks' = tasks
          ELSE IF ~TaskDone(h)
          THEN /\ tasks' = RequestCancel(tasks, h)
               /\ callers' = [callers EXCEPT ![k].pc = "d_cancel", ![k].aw = h]
               /\ UNCHANGED <<state, lastret>>
          ELSE /\ DisconnectEnd(k, JoinedState, "true")
               /\ tasks' = tasks
    /\ UNCHANGED <<connection_type, rpc, push, exec, session, shutdown_event, connected_event,
                   lifecycle_task, owner>>

\* "await self._lifecycle_task" of the handler ends; whatever the task raised
\* is caught.
DisconnectCancelled(k) ==
    /\ callers[k].pc = "d_cancel"
    /\ TaskDone(callers[k].aw)
    /\ DisconnectEnd(k, JoinedState, "true")
    /\ UNCHANGED <<connection_type, rpc, push, exec, session, shutdown_event, connected_event,
                   lifecycle_task, tasks, owner>>

\* The caller takes the result of its call and is free to call again.
Return(k) ==
    /\ callers[k].pc = "done"
    /\ callers' = [callers EXCEPT ![k] = Idle]
    /\ tasks' = Collect(tasks, callers', lifecycle_task)
    /\ UNCHANGED <<connection_type, rpc, push, exec,
                   state, session, shutdown_event, connected_event,
                   lifecycle_task, owner, lastret>>

\* ---- the specification --------------------------------------------------------
Next ==
    \/ \E k \in Callers : ConnectCall(k)
    \/ \E k \in Callers : ConnectResume(k)
    \/ \E k \in Callers : ConnectTimeout(k)
    \/ \E k \in Callers : DisconnectCall(k)
    \/ \E k \in Callers : DisconnectJoined(k)
    \/ \E k \in Callers : DisconnectTimeout(k)
    \/ \E k \in Callers : DisconnectTimedOut(k)
    \/ \E k \in Callers : DisconnectCancelled(k)
    \/ \E k \in Callers : Return(k)
    \/ \E t \in TaskIds : LifecycleStart(t)
    \/ \E t \in TaskIds : LifecycleOpened(t)
    \/ \E t \in TaskIds : LifecycleInitialized(t)
    \/ \E t \in TaskIds : LifecycleShutdown(t)
    \/ \E t \in TaskIds : LifecycleCancelled(t)
    \/ \E t \in TaskIds : LifecycleClosed(t)

Spec == Init /\ [][Next]_vars

\* ---- the RPC facade -----------------------------------------------------------
\* The public methods that delegate to the ClientSession.
Operations ==
    {"get_tools", "call_tool", "complete", "get_prompt", "list_prompts",
     "list_resources", "list_resource_templates", "read_resource",
     "subscribe_resource", "unsubscribe_resource", "send_ping", "send_notification"}

ResourceOperations == {"read_resource", "subscribe_resource", "unsubscribe_resource"}

\* The arguments the model calls an operation with: call_tool with an empty and a
\* non-empty tool name, with a dict and with something that is not one; the
\* resource operations with a URL and with a string that is not one.
Arguments(op) ==
    CASE op = "call_tool" -> {<<"", "dict">>, <<"echo", "dict">>, <<"echo", "scalar">>}
      [] op \in {"complete", "get_prompt"} -> {<<"p", "dict">>}
      [] op \in ResourceOperations -> {<<"file:///a">>, <<"not a url">>}
      [] op = "send_notification" -> {<<"roots/list_changed">>}
      [] OTHER -> {<<>>}

\* Mutant: a locator type that takes any string.
AnyUrlLenient(x) == [raises |-> "none", url |-> x]

\* pydantic's AnyUrl(x): the parsed URL, or ValidationError raised for a string
\* that is not a URL.
AnyUrl(x) ==
    IF x = "file:///a"
    THEN [raises |-> "none", url |-> x]
    ELSE [raises |-> "ValidationError", url |-> ""]

\* The ClientSession method an operation awaits.
Verb(op) == IF op = "get_tools" THEN "list_tools" ELSE op

\* Mutant: call_tool and get_prompt hand their two arguments over in the wrong
\* order.
SessionArgumentsSwapped(op, args) ==
    CASE op \in {"call_tool", "get_prompt"} -> <<args[2], args[1]>>
      [] op = "complete" -> <<[type |-> "ref/prompt", name |-> args[1]], args[2]>>
      [] op \in ResourceOperations -> <<AnyUrl(args[1])>>
      [] OTHER -> args

\* The arguments an operation hands to the ClientSession method.
SessionArguments(op, args) ==
    CASE op = "complete" -> <<[type |-> "ref/prompt", name |-> args[1]], args[2]>>
      [] op \in ResourceOperations -> <<AnyUrl(args[1])>>
      [] OTHER -> args

\* The methods that start with "assert self.session is not None".
Asserts(op) == op # "send_ping"

\* What an operation does when self.session is sess: the exception it raises
\* before any call of the session (err), or the calls it makes of the session and
\* what it hands back, the outcome (result or exception) of the awaited call.
Facade(op, args, sess) ==
    IF sess = 0
    THEN [err |-> IF Asserts(op) THEN "AssertionError" ELSE "AttributeError",
          calls |-> <<>>, ret |-> <<>>]
    ELSE IF op \in ResourceOperations /\ AnyUrl(args[1]).raises # "none"
    THEN [err |-> "ValidationError", calls |-> <<>>, ret |-> <<>>]
    ELSE [err |-> "none",
          calls |-> <<[on |-> sess, verb |-> Verb(op), args |-> SessionArguments(op, args)]>>,
          ret |-> <<"outcome", Verb(op)>>]

\* Some coroutine calls operation op of client c.
RpcCall(c, op, args) ==
    /\ rpc.cl = 0
    /\ push.cl = 0
    /\ rpc' = [cl |-> c, op |-> op, args |-> args, out |-> Facade(op, args, session[c])]
    /\ UNCHANGED <<connection_type, push, exec, state, session, shutdown_event,
                   connected_event, lifecycle_task, tasks, callers, owner, lastret>>

\* The call is over: its caller has what it raised or handed back.
RpcReturn ==
    /\ rpc.cl # 0
    /\ rpc' = NoRpc
    /\ UNCHANGED <<connection_type, push, exec, state, session, shutdown_event,
                   connected_event, lifecycle_task, tasks, callers, owner, lastret>>

\* ---- the notification dispatcher ------------------------------------------------
\* The classes of the notifications a server sends that the model tells apart:
\* the three list-changed notifications and one other.
NotificationKinds ==
    {"ToolListChangedNotification", "PromptListChangedNotification",
     "ResourceListChangedNotification", "LoggingMessageNotification"}

\* What message_handler_callback is called with (req).  The annotation says: a
\* RequestResponder, a types.ServerNotification or an Exception.  A
\* ServerNotification is the SDK's root model around the typed notification
\* (kind is the class of its root), and it is what ClientSession hands to the
\* callback for a notification; a call with the typed notification itself
\* (shape "notification") is what the isinstance tests of the callback look for.
Messages ==
    [shape : {"notification", "ServerNotification"}, kind : NotificationKinds]
    \cup {[shape |-> "RequestResponder", kind |-> "ServerRequest"],
          [shape |-> "Exception", kind |-> "Exception"]}

\* isinstance(req, types.<cls>) for a notification class cls: the wrapper, the
\* responder and the exception are instances of none of them.
IsInstance(msg, cls) == msg.shape = "notification" /\ msg.kind = cls

\* Mutant: a chain that takes every notification that is not a tool- or
\* prompt-list change, and every other message, for a resource-list change.
HookResourcesByDefault(msg) ==
    IF IsInstance(msg, "ToolListChangedNotification") THEN "_update_tools_cache"
    ELSE IF IsInstance(msg, "PromptListChangedNotification") THEN "_update_prompts_cache"
    ELSE "_update_resources_cache"

\* The method of self.manager the if/elif chain calls for req, "none" in the
\* else branch.
Hook(msg) ==
    IF IsInstance(msg, "ToolListChangedNotification") THEN "_update_tools_cache"
    ELSE IF IsInstance(msg, "PromptListChangedNotification") THEN "_update_prompts_cache"
    ELSE IF IsInstance(msg, "ResourceListChangedNotification") THEN "_update_resources_cache"
    ELSE "none"

\* self.server_config.id of client c.
ServerId(c) == c

\* "anyio.lowlevel.checkpoint()" stands without await: the call builds the
\* coroutine object and nothing runs it.
CheckpointAwaited == FALSE

\* Mutant: a callback that takes an exception payload for the end of the
\* connection.
DispatchStateOnError(st, msg) == IF msg.shape = "Exception" THEN ERROR ELSE st

\* self.state after a run of the callback: it assigns no attribute of self.
DispatchState(st, msg) == st

\* One run of message_handler_callback of the client with server id id, called
\* with msg; fails: the method of the manager it calls raises.  hooks: the calls
\* of the manager it makes; logged: it took the else branch; raised: an
\* exception leaves the callback; checkpoint: none (not reached), created (the
\* coroutine object was built and dropped), awaited (the callback suspended).
Dispatch(msg, id, fails) ==
    LET hook == Hook(msg)
        raised == hook # "none" /\ fails
    IN [hooks |-> IF hook = "none" THEN <<>> ELSE <<[hook |-> hook, id |-> id]>>,
        logged |-> hook = "none",
        raised |-> raised,
        checkpoint |-> IF raised THEN "none"
                       ELSE IF CheckpointAwaited THEN "awaited" ELSE "created"]

\* The ClientSession of client c is entered and not yet exited: its read loop
\* runs and calls the callback for what arrives.
ReadLoop(c) ==
    \E t \in TaskIds :
        /\ tasks[t].cl = c
        /\ tasks[t].pc \in {"handshake", "running", "closing"}
        /\ \E i \in 1..Len(tasks[t].stack) : tasks[t].stack[i] = "session"

\* The callback of client c is called with msg and runs to its end.
Deliver(c, msg, fails) ==
    /\ rpc.cl = 0
    /\ push.cl = 0
    /\ ReadLoop(c)
    /\ push' = [cl |-> c, msg |-> msg, out |-> Dispatch(msg, ServerId(c), fails)]
    /\ state' = [state EXCEPT ![c] = DispatchState(@, msg)]
    /\ UNCHANGED <<connection_type, rpc, exec, session, shutdown_event, connected_event,
                   lifecycle_task, tasks, callers, owner, lastret>>

\* The run is over: the read loop has what the callback raised or returned.
DispatchReturn ==
    /\ push.cl # 0
    /\ push' = NoPush
    /\ UNCHANGED <<connection_type, rpc, exec, state, session, shutdown_event,
                   connected_event, lifecycle_task, tasks, callers, owner, lastret>>

\* The same program under the scheduling of a running event loop: a coroutine
\* that is ready is run; a timer that was armed fires, however often ready
\* coroutines are served before it; exit_stack.aclose() terminates.  The server
\* need not answer (LifecycleOpened, LifecycleInitialized) and callers need not
\* call.
Fairness ==
    /\ \A k \in Callers :
          /\ WF_vars(ConnectResume(k))
          /\ WF_vars(DisconnectJoined(k))
          /\ WF_vars(DisconnectTimedOut(k))
          /\ WF_vars(DisconnectCancelled(k))
          /\ SF_vars(ConnectTimeout(k))
          /\ SF_vars(DisconnectTimeout(k))
    /\ \A t \in TaskIds :
          /\ WF_vars(LifecycleStart(t))
          /\ WF_vars(LifecycleShutdown(t))
          /\ WF_vars(LifecycleCancelled(t))
          /\ SF_vars(LifecycleClosed(t))

\* Next with connect() called by the callers of Connectors only.
LiveNext ==
    \/ \E k \in Connectors : ConnectCall(k)
    \/ \E k \in Callers : ConnectResume(k)
    \/ \E k \in Callers : ConnectTimeout(k)
    \/ \E k \in Callers : DisconnectCall(k)
    \/ \E k \in Callers : DisconnectJoined(k)
    \/ \E k \in Callers : DisconnectTimeout(k)
    \/ \E k \in Callers : DisconnectTimedOut(k)
    \/ \E k \in Callers : DisconnectCancelled(k)
    \/ \E k \in Callers : Return(k)
    \/ \E t \in TaskIds : LifecycleStart(t)
    \/ \E t \in TaskIds : LifecycleOpened(t)
    \/ \E t \in TaskIds : LifecycleInitialized(t)
    \/ \E t \in TaskIds : LifecycleShutdown(t)
    \/ \E t \in TaskIds : LifecycleCancelled(t)
    \/ \E t \in TaskIds : LifecycleClosed(t)

LiveSpec == Init /\ [][LiveNext]_vars /\ Fairness

\* LiveNext, the calls of the RPC facade and the runs of the dispatcher.  An
\* operation does nothing after the session call it awaits and the callback
\* never suspends, so the model looks at one call or run at a time and lets
\* connect(), disconnect() and the lifecycle task go on once it is over.
RpcNext ==
    \/ rpc.cl = 0 /\ push.cl = 0 /\ LiveNext
    \/ \E c \in Clients : \E op \in Operations : \E args \in Arguments(op) :
           RpcCall(c, op, args)
    \/ RpcReturn
    \/ \E c \in Clients : \E msg \in Messages : \E fails \in BOOLEAN :
           Deliver(c, msg, fails)
    \/ DispatchReturn

RpcSpec == Init /\ [][RpcNext]_vars

\* Several clients at work: caller k uses client k (the callers beyond the number
\* of clients start over at client 1); client 1 is of any connection type, the
\* others are stdio clients.  All calls of Next, and one at a time the calls of
\* two operations of the RPC facade (one without arguments, one with a locator)
\* and the runs of the dispatcher on the typed notifications.
PairInit ==
    /\ InitClient
    /\ owner = [k \in Callers |-> ((k - 1) % NumClients) + 1]
    /\ connection_type \in [Clients -> ConnectionTypes]
    /\ \A c \in Clients : c # 1 => connection_type[c] = "stdio"

PairOperations == {"get_tools", "read_resource"}

PairMessages == {msg \in Messages : msg.shape = "notification"}

PairNext ==
    \/ rpc.cl = 0 /\ push.cl = 0 /\ Next
    \/ \E c \in Clients : \E op \in PairOperations : \E args \in Arguments(op) :
           RpcCall(c, op, args)
    \/ RpcReturn
    \/ \E c \in Clients : \E msg \in PairMessages : \E fails \in BOOLEAN :
           Deliver(c, msg, fails)
    \/ DispatchReturn

PairSpec == PairInit /\ [][PairNext]_vars

TypeOK ==
    /\ state \in [Clients -> MCPConnectionState]
    /\ session \in [Clients -> 0..MaxTasks]
    /\ lifecycle_task \in [Clients -> 0..MaxTasks]

\* ---- steps of a call, as seen in one transition ----------------------------------
\* Caller k enters the call op in this step.
CallStep(k, op) ==
    callers[k].pc = "idle" /\ callers'[k].pc # "idle" /\ callers'[k].op = op

\* Caller k's call ends in this step.
ReturnStep(k) == callers[k].pc \notin {"idle", "done"} /\ callers'[k].pc = "done"

\* The lifecycle tasks of client c that are created and have not ended.
ActiveTasks(c) == {t \in TaskIds : tasks[t].cl = c /\ TaskActive(t)}

\* The fields of client c that connect(), disconnect() and the lifecycle task own.
ClientFields(c) ==
    <<state[c], session[c], connected_event[c], shutdown_event[c], lifecycle_task[c]>>

\* ---- C1 ---------------------------------------------------------------------------
\* C1: in every reachable state, whatever connect() and disconnect() calls were
\* made and however they interleaved, at most one lifecycle task of a client is
\* created and not yet ended.
C1_OneLifecycleTask == \A c \in Clients : Cardinality(ActiveTasks(c)) <= 1

\* A second lifecycle task of the client runs after an earlier one has ended and
\* while a call still refers to the earlier one.
C1_Witness ==
    \E t, u \in TaskIds :
        /\ t # u
        /\ tasks[t].cl = 1 /\ tasks[u].cl = 1
        /\ tasks[t].pc = "done"
        /\ tasks[u].pc = "handshake"

\* ---- C2 ---------------------------------------------------------------------------
\* C2: in every reachable state a session is bound only while the state is
\* CONNECTED or CONNECTING, and is bound whenever the state is CONNECTED.
C2_SessionIffConnected ==
    \A c \in Clients :
        /\ session[c] # 0 => state[c] \in {CONNECTED, CONNECTING}
        /\ state[c] = CONNECTED => session[c] # 0

\* ---- C3 ---------------------------------------------------------------------------
\* C3: a connect() returns true only from its wait on the readiness signal, after
\* the signal was set while it waited, and when the state it reads is CONNECTED;
\* the state becomes CONNECTED only in the step of a lifecycle task whose
\* initialize() has just returned, and the success path never resolves a waiter
\* or sets the signal without the state being CONNECTED by then.
C3_ConnectTrue ==
    [][ /\ \A k \in Callers :
              (ReturnStep(k) /\ callers'[k].op = "connect" /\ callers'[k].ret = "true")
              => /\ callers[k].pc = "c_wait"
                 /\ callers[k].woken # "no"
                 /\ state[owner[k]] = CONNECTED
        /\ \A c \in Clients :
              (state'[c] = CONNECTED /\ state[c] # CONNECTED)
              => \E t \in TaskIds : /\ tasks[t].cl = c
                                    /\ tasks[t].pc = "handshake"
                                    /\ ~tasks[t].hs /\ tasks'[t].hs
        /\ \A t \in TaskIds :
              (tasks'[t].hs /\ ~tasks[t].hs /\ connected_event'[tasks[t].cl])
              => state'[tasks[t].cl] = CONNECTED
        /\ \A k \in Callers :
              (callers[k].woken = "no" /\ callers'[k].woken = "ready")
              => state'[owner[k]] = CONNECTED
      ]_vars

\* A connect() has returned true and the client is connected with its session.
C3_Witness ==
    \E k \in Callers :
        /\ callers[k].pc = "done" /\ callers[k].op = "connect" /\ callers[k].ret = "true"
        /\ state[owner[k]] = CONNECTED
        /\ session[owner[k]] # 0

\* ---- C4 ---------------------------------------------------------------------------
\* C4: a connect() called while the state is CONNECTING, CONNECTED or DISCONNECTING
\* returns false in the same step and leaves the state, the session, both signals,
\* the task handle and every lifecycle task as they were.
C4_RefusedConnect ==
    [][ \A k \in Callers :
           (CallStep(k, "connect")
              /\ state[owner[k]] \in {CONNECTING, CONNECTED, DISCONNECTING})
           => /\ callers'[k].pc = "done"
              /\ callers'[k].ret = "false"
              /\ ClientFields(owner[k])' = ClientFields(owner[k])
              /\ tasks' = tasks
      ]_vars

\* A connect() was refused while a disconnect() was under way.
C4_Witness ==
    \E k \in Callers :
        /\ callers[k].pc = "done" /\ callers[k].op = "connect" /\ callers[k].ret = "false"
        /\ callers[k].ct = 0
        /\ state[owner[k]] = DISCONNECTING

\* ---- C6 ---------------------------------------------------------------------------
\* C6: a disconnect() called while the state is DISCONNECTED returns true in the
\* same step and changes nothing: the state stays DISCONNECTED, the shutdown signal
\* is not raised, no task is awaited or cancelled.  A second disconnect() therefore
\* does what the first did.
C6_DisconnectNoop ==
    [][ \A k \in Callers :
           (CallStep(k, "disconnect") /\ state[owner[k]] = DISCONNECTED)
           => /\ callers'[k].pc = "done"
              /\ callers'[k].ret = "true"
              /\ ClientFields(owner[k])' = ClientFields(owner[k])
              /\ tasks' = tasks
      ]_vars

\* A disconnect() has returned true on a client that is DISCONNECTED and whose
\* shutdown signal was not raised.
C6_Witness ==
    \E k \in Callers :
        /\ callers[k].pc = "done" /\ callers[k].op = "disconnect" /\ callers[k].ret = "true"
        /\ state[owner[k]] = DISCONNECTED
        /\ ~shutdown_event[owner[k]]

C8_FailureWakesConnect ==
    [][ /\ \A t \in TaskIds :
              (tasks[t].fail = "none" /\ tasks'[t].fail # "none")
              => /\ state'[tasks[t].cl] = ERROR
                 /\ connected_event'[tasks[t].cl]
                 /\ \A k \in Callers :
                       (owner[k] = tasks[t].cl /\ callers[k].pc = "c_wait")
                       => callers'[k].woken # "no"
        /\ \A k \in Callers :
              (callers[k].pc = "c_wait" /\ callers[k].woken = "failed")
              => /\ state'[owner[k]] # CONNECTED
                 /\ ~callers'[k].inner
                 /\ callers'[k].pc = "done" => callers'[k].ret = "false"
      ]_vars

\* A connect() has returned false, without timing out, after its lifecycle task
\* failed in initialize().
C8_Witness ==
    \E k \in Callers :
        /\ callers[k].pc = "done" /\ callers[k].op = "connect" /\ callers[k].ret = "false"
        /\ ~callers[k].inner
        /\ callers[k].new
        /\ tasks[callers[k].ct].fail = "handshake"

\* ---- C9 ---------------------------------------------------------------------------
\* The lifecycle task t was cancelled while it waited in initialize(): its session
\* was built and released, initialize() never returned and nothing was raised.
CancelledInHandshake(t) ==
    /\ tasks[t].pc = "done"
    /\ tasks[t].rel = <<"session", "transport">>
    /\ ~tasks[t].hs
    /\ tasks[t].fail = "none"

C10_TimeoutTearsDown ==
    [][ \A k \in Callers :
           (/\ callers[k].op = "connect" /\ callers[k].pc # "done"
            /\ callers'[k].pc = "done" /\ callers'[k].inner /\ callers'[k].ret = "false")
           => /\ state'[owner[k]] \notin {CONNECTING, DISCONNECTING}
              /\ tasks'[callers[k].ct].pc = "done"
      ]_vars

\* ---- C11 --------------------------------------------------------------------------
\* C11: a connect() called after a connect() that returned false and left the
\* state ERROR is accepted, sets the state CONNECTING, and the lifecycle task of
\* the client is then a task created for this attempt, which has its transport
\* open and handshake still to do.
C11_RetryAfterError ==
    [][ \A k \in Callers :
           (/\ CallStep(k, "connect")
            /\ lastret[owner[k]] = "false"
            /\ state[owner[k]] = ERROR)
           => /\ callers'[k].pc = "c_wait"
              /\ state'[owner[k]] = CONNECTING
              /\ callers'[k].new
              /\ tasks'[lifecycle_task'[owner[k]]].pc = "new"
      ]_vars

\* ---- C12 --------------------------------------------------------------------------
\* C12: disconnect() called on a CONNECTED client (a connect() returned true and
\* no disconnect() was called since) sets the state DISCONNECTING and the shutdown
\* signal, which wakes the lifecycle task; the woken task clears the session; the
\* end of its cleanup releases the session and the transport and turns
\* DISCONNECTING into DISCONNECTED; the disconnect() whose wait the task's end
\* finishes returns true with the state DISCONNECTED and no session bound.
C12_CleanDisconnect ==
    [][ /\ \A k \in Callers :
              (CallStep(k, "disconnect") /\ lastret[owner[k]] = "true")
              => /\ state[owner[k]] = CONNECTED
                 /\ state'[owner[k]] = DISCONNECTING
                 /\ shutdown_event'[owner[k]]
                 /\ callers'[k].pc = "d_wait"
                 /\ callers'[k].aw = lifecycle_task[owner[k]]
                 /\ tasks[callers'[k].aw].pc = "running"
                 /\ tasks'[callers'[k].aw].wake
        /\ \A t \in TaskIds :
              (tasks[t].pc = "running" /\ tasks[t].wake /\ tasks'[t].pc = "closing")
              => session'[tasks[t].cl] = 0
        /\ \A t \in TaskIds :
              (tasks[t].pc = "closing" /\ tasks'[t].pc = "done" /\ tasks'[t].res = "ok")
              => /\ tasks'[t].rel = Reverse(tasks[t].stack)
                 /\ state[tasks[t].cl] = DISCONNECTING
                    => state'[tasks[t].cl] = DISCONNECTED
        /\ \A k \in Callers :
              (/\ ReturnStep(k) /\ callers[k].op = "disconnect"
               /\ callers[k].prev = "true" /\ ~callers[k].jt
               /\ tasks[callers[k].aw].res = "ok")
              => /\ callers'[k].ret = "true"
                 /\ state'[owner[k]] = DISCONNECTED
                 /\ session'[owner[k]] = 0
                 /\ tasks[callers[k].aw].rel = <<"session", "transport">>
      ]_vars

\* A disconnect() of a CONNECTED client has returned true after the lifecycle task
\* ended on the shutdown signal, and the state is DISCONNECTED.
C12_Witness ==
    \E k \in Callers :
        /\ callers[k].pc = "done" /\ callers[k].op = "disconnect"
        /\ callers[k].prev = "true" /\ ~callers[k].jt
        /\ callers[k].ret = "true"
        /\ state[owner[k]] = DISCONNECTED
        /\ session[owner[k]] = 0
        /\ lifecycle_task[owner[k]] # 0
        /\ tasks[lifecycle_task[owner[k]]].res = "ok"
        /\ tasks[lifecycle_task[owner[k]]].rel = <<"session", "transport">>

\* ---- C13 --------------------------------------------------------------------------
\* C13: when the wait of a disconnect() for the lifecycle task times out, the task
\* is sent a cancellation; a task the cancellation reaches in its try body clears
\* the session and closes its exit stack; the close releases everything the stack
\* holds, each resource once, the session before the transport; and the
\* disconnect() returns true with the state DISCONNECTED unless the cleanup of
\* the task raised.
C13_ForcedCancel ==
    [][ /\ \A k \in Callers :
              (callers[k].pc = "d_wait" /\ callers'[k].pc = "d_tmo")
              => /\ ~TaskDone(callers[k].aw)
                 /\ tasks'[callers[k].aw].cancel \in {"req", "cleanup"}
        /\ \A t \in TaskIds :
              (/\ tasks[t].cancel = "req" /\ tasks'[t].pc # tasks[t].pc
               /\ tasks[t].pc \in {"opening", "handshake", "running"})
              => /\ session'[tasks[t].cl] = 0
                 /\ tasks'[t].pc = IF tasks[t].stack = <<>> THEN "done" ELSE "closing"
                 /\ tasks'[t].stack = tasks[t].stack \/ tasks'[t].pc = "done"
        /\ \A t \in TaskIds :
              (tasks[t].pc = "closing" /\ tasks'[t].pc = "done")
              => /\ tasks'[t].rel = Reverse(tasks[t].stack)
                 /\ tasks'[t].rel \in {<<"transport">>, <<"session", "transport">>}
        /\ \A k \in Callers :
              (/\ ReturnStep(k) /\ callers[k].op = "disconnect" /\ callers[k].jt
               /\ (callers[k].pc = "d_cancel" \/ tasks[callers[k].aw].res # "exc"))
              => /\ callers'[k].ret = "true"
                 /\ state'[owner[k]] = DISCONNECTED
      ]_vars

\* A disconnect() of a CONNECTED client has returned true after its wait timed out:
\* the task, slow in closing its exit stack, was cancelled, has released the
\* session and the transport, and the state is DISCONNECTED.
C13_Witness ==
    \E k \in Callers :
        /\ callers[k].pc = "done" /\ callers[k].op = "disconnect"
        /\ callers[k].prev = "true" /\ callers[k].jt
        /\ callers[k].ret = "true"
        /\ state[owner[k]] = DISCONNECTED
        /\ lifecycle_task[owner[k]] # 0
        /\ tasks[lifecycle_task[owner[k]]].hs
        /\ tasks[lifecycle_task[owner[k]]].res = "cancelled"
        /\ tasks[lifecycle_task[owner[k]]].rel = <<"session", "transport">>

\* ---- C14 --------------------------------------------------------------------------
\* A call on client c is suspended.
InFlight(cs, c) ==
    \E k \in Callers : owner[k] = c /\ cs[k].pc \in {"c_wait", "d_wait", "d_tmo", "d_cancel"}

C15_ReverseRelease ==
    [][ /\ \A t \in TaskIds :
              (tasks[t].pc = "opening" /\ tasks'[t].pc = "handshake")
              => tasks'[t].stack = <<"transport", "session">>
        /\ \A t \in TaskIds :
              (tasks[t].pc \notin {"closing", "done"} /\ tasks'[t].pc = "closing")
              => /\ session'[tasks[t].cl] = 0
                 /\ tasks'[t].rel = <<>>
                 /\ tasks'[t].stack \in {<<"transport">>, <<"transport", "session">>}
        /\ \A t \in TaskIds :
              tasks'[t].pc = "closing" => session'[tasks[t].cl] = 0
        /\ \A t \in TaskIds :
              (tasks[t].pc = "closing" /\ tasks'[t].pc = "done")
              => tasks'[t].rel = IF Len(tasks[t].stack) = 2
                                 THEN <<"session", "transport">>
                                 ELSE <<"transport">>
      ]_vars

\* A lifecycle task that was connected has ended on the shutdown signal: the
\* session reference is cleared and the session was released before the transport.
C15_Witness ==
    \E t \in TaskIds :
        /\ tasks[t].pc = "done" /\ tasks[t].hs /\ tasks[t].res = "ok"
        /\ tasks[t].fail = "none"
        /\ tasks[t].rel = <<"session", "transport">>
        /\ session[tasks[t].cl] = 0

\* ---- C16 --------------------------------------------------------------------------
\* C16: every connect() and every disconnect() that has ended has returned a
\* boolean: no exception has left the call.
C16_NeverRaise ==
    \A k \in Callers :
        callers[k].pc = "done" => callers[k].ret \in {"true", "false"}

\* ---- C17 --------------------------------------------------------------------------
\* C17: under LiveSpec every connect() and every disconnect() that is suspended
\* eventually ends, whether or not the transport open and the handshake ever
\* complete.
C17_CallsTerminate ==
    \A k \in Callers :
        (callers[k].pc \in {"c_wait", "d_wait", "d_tmo", "d_cancel"})
            ~> (callers[k].pc = "done")

\* A connect() has ended although its lifecycle task never got an answer to
\* initialize(): both timeouts fired and the task was cancelled.
C17_Witness ==
    \E k \in Callers :
        /\ callers[k].pc = "done" /\ callers[k].op = "connect"
        /\ callers[k].inner /\ callers[k].jt /\ callers[k].new
        /\ tasks[callers[k].ct].pc = "done"
        /\ tasks[callers[k].ct].res = "cancelled"
        /\ ~tasks[callers[k].ct].hs
        /\ tasks[callers[k].ct].rel = <<"session", "transport">>

\* ---- C18 --------------------------------------------------------------------------
\* The operation failed for want of a session, before any call of a session: the
\* AssertionError of its assert, or for send_ping, which has none, the
\* AttributeError of "self.session.send_ping" on None.
NotConnected(out) == out.err \in {"AssertionError", "AttributeError"} /\ out.calls = <<>>

\* C18: an operation of the RPC facade called on a client whose state is
\* DISCONNECTED fails for want of a session and calls no session.
C18_DisconnectedRejects ==
    (rpc.cl # 0 /\ state[rpc.cl] = DISCONNECTED) => NotConnected(rpc.out)

\* ---- C19 --------------------------------------------------------------------------
\* C19: an operation of the RPC facade calls the session only if the state of the
\* client is CONNECTED when it is called; called while the state is CONNECTING,
\* DISCONNECTING or ERROR it fails for want of a session and calls no session.
C19_DelegatesOnlyConnected ==
    rpc.cl # 0
    => /\ rpc.out.calls # <<>> => state[rpc.cl] = CONNECTED
       /\ state[rpc.cl] \in {CONNECTING, DISCONNECTING, ERROR} => NotConnected(rpc.out)

\* ---- C20 --------------------------------------------------------------------------
\* C20: call_tool called on a CONNECTED client with an empty tool name, or with
\* arguments that are not a dict, fails and calls no session.
C20_CallToolValidates ==
    (/\ rpc.cl # 0 /\ rpc.op = "call_tool"
     /\ state[rpc.cl] = CONNECTED
     /\ (rpc.args[1] = "" \/ rpc.args[2] # "dict"))
    => (rpc.out.err # "none" /\ rpc.out.calls = <<>>)

\* ---- C21 -------------------------------------------------------------------------
\* C21: read_resource, subscribe_resource and unsubscribe_resource called with a
\* string that is not a URL fail and call no session; called with a URL on a
\* client with a session they call the session once, with the parsed URL.
C21_LocatorParsedFirst ==
    (rpc.cl # 0 /\ rpc.op \in ResourceOperations)
    => /\ rpc.args = <<"not a url">>
          => (rpc.out.err # "none" /\ rpc.out.calls = <<>>)
       /\ (rpc.args = <<"file:///a">> /\ session[rpc.cl] # 0)
          => /\ Len(rpc.out.calls) = 1
             /\ rpc.out.calls[1].verb = rpc.op
             /\ rpc.out.calls[1].args = <<[raises |-> "none", url |-> "file:///a"]>>

\* read_resource was called on a CONNECTED client with a string that is not a URL
\* and raised ValidationError.
C21_Witness ==
    /\ rpc.cl # 0 /\ rpc.op = "read_resource"
    /\ rpc.args = <<"not a url">>
    /\ state[rpc.cl] = CONNECTED /\ session[rpc.cl] # 0
    /\ rpc.out.err = "ValidationError"
    /\ rpc.out.calls = <<>>

\* ---- C22 --------------------------------------------------------------------------
\* C22: the state, the session reference, the two events and the lifecycle task
\* handle of a client change only in steps of its connect() and disconnect() calls
\* and of its lifecycle task: a step in which one of them changes is a step of
\* such a call or task, and no call of an operation of the RPC facade, failed or
\* not, and no run of the dispatcher changes any of them for any client.
C22_FacadeFrame ==
    [][/\ (rpc' # rpc \/ push' # push)
          => \A c \in Clients : ClientFields(c)' = ClientFields(c)
       /\ \A c \in Clients :
             ClientFields(c)' # ClientFields(c)
             => \/ \E k \in Callers : owner[k] = c /\ callers'[k].pc # callers[k].pc
                \/ \E t \in TaskIds : tasks'[t].cl = c /\ tasks'[t].pc # tasks[t].pc]_vars

\* The dispatcher of a connected client has run on an exception payload.
C22_Witness ==
    /\ push.cl # 0
    /\ push.msg.shape = "Exception"
    /\ state[push.cl] = CONNECTED
    /\ session[push.cl] # 0
    /\ lifecycle_task[push.cl] # 0

\* ---- C23 --------------------------------------------------------------------------
\* The arguments of the caller that the arguments sargs of a session call carry:
\* complete hands the prompt name over inside a prompt reference, the resource
\* operations hand the locator over as a parsed URL.
Carried(op, sargs) ==
    CASE op = "complete" -> <<sargs[1].name, sargs[2]>>
      [] op \in ResourceOperations -> <<sargs[1].url>>
      [] OTHER -> sargs

\* What C23 asks of the call under way: one call, of the bound session, of the
\* verb of the operation, with the caller's arguments, and its outcome is what the
\* operation hands back.
OneVerbatimCall ==
    /\ rpc.out.err = "none"
    /\ Len(rpc.out.calls) = 1
    /\ rpc.out.calls[1].on = session[rpc.cl]
    /\ rpc.out.calls[1].verb = (IF rpc.op = "get_tools" THEN "list_tools" ELSE rpc.op)
    /\ Carried(rpc.op, rpc.out.calls[1].args) = rpc.args
    /\ rpc.out.ret = <<"outcome", rpc.out.calls[1].verb>>

ListChanged ==
    {"ToolListChangedNotification", "PromptListChangedNotification",
     "ResourceListChangedNotification"}

MatchingHook(kind) ==
    CASE kind = "ToolListChangedNotification" -> "_update_tools_cache"
      [] kind = "PromptListChangedNotification" -> "_update_prompts_cache"
      [] kind = "ResourceListChangedNotification" -> "_update_resources_cache"
      [] OTHER -> "none"

\* C24: whenever the dispatcher of a client has run on a tool-, prompt- or
\* resource-list-changed notification, it made exactly one call of the manager:
\* of the matching method, with the server id of that client.
C24_ListChangedInvalidates ==
    (push.cl # 0 /\ push.msg.kind \in ListChanged)
    => push.out.hooks = <<[hook |-> MatchingHook(push.msg.kind), id |-> ServerId(push.cl)]>>

\* ---- C25 --------------------------------------------------------------------------
\* C25: a run of the dispatcher on a message that is no list-changed notification
\* (another notification, a request responder, an exception) calls no method of
\* the manager, and the step of the run leaves the state and the session of every
\* client as they were.
C25_OtherKindsIgnored ==
    [][(push.cl = 0 /\ push'.cl # 0 /\ push'.msg.kind \notin ListChanged)
       => /\ push'.out.hooks = <<>>
          /\ state' = state
          /\ session' = session]_vars

\* The dispatcher of a connected client has run on a notification of another kind.
C25_Witness ==
    /\ push.cl # 0
    /\ push.msg.kind = "LoggingMessageNotification"
    /\ push.out.logged
    /\ push.out.hooks = <<>>
    /\ state[push.cl] = CONNECTED
    /\ session[push.cl] # 0

\* ---- C26 --------------------------------------------------------------------------
\* C26: no run of the dispatcher ends with an exception that leaves the callback,
\* whatever the message and whether or not the method of the manager it calls
\* raises.
C26_DispatchNeverRaises == push.cl # 0 => ~push.out.raised

\* ---- C27 --------------------------------------------------------------------------
\* C27: every run of the dispatcher that handled its message executed the
\* checkpoint, that is suspended once and let the event loop run what is ready,
\* before it returned.
C27_CheckpointExecuted ==
    (push.cl # 0 /\ ~push.out.raised) => push.out.checkpoint = "awaited"

\* ---- C28 --------------------------------------------------------------------------
\* This step is a step of client c: one of its connect() or disconnect() calls,
\* its lifecycle task, a call of its RPC facade or a run of its dispatcher moves.
StepOf(c) ==
    \/ \E k \in Callers : owner[k] = c /\ callers'[k].pc # callers[k].pc
    \/ \E t \in TaskIds : /\ tasks'[t].cl = c
                          /\ tasks'[t].pc # tasks[t].pc
    \/ rpc' # rpc /\ (rpc.cl = c \/ rpc'.cl = c)
    \/ push' # push /\ (push.cl = c \/ push'.cl = c)

\* C28: a step of one client (of its connect(), disconnect(), lifecycle task, RPC
\* call or dispatcher) leaves the state, the session reference, the events and
\* the lifecycle task handle of every other client as they were, and the running
\* lifecycle tasks and the calls of every other client too; no session is bound to
\* two clients; and the calls of the manager a run of the dispatcher makes carry
\* the server id of its own client.
C28_ClientsIndependent ==
    [][/\ \A c \in Clients : \A d \in Clients \ {c} :
             StepOf(c)
             => /\ ClientFields(d)' = ClientFields(d)
                /\ \A t \in TaskIds :
                      (tasks[t].cl = d /\ TaskActive(t)) => tasks'[t] = tasks[t]
                /\ \A k \in Callers : owner[k] = d => callers'[k] = callers[k]
       /\ \A c \in Clients : \A d \in Clients \ {c} :
             session'[c] # 0 => session'[c] # session'[d]
       /\ \A i \in 1..Len(push'.out.hooks) : push'.out.hooks[i].id = push'.cl]_vars

\* Client 2 is connected, with its own session, while a disconnect() of client 1,
\* connected too, waits for the lifecycle task of client 1.
C28_Witness ==
    /\ state[2] = CONNECTED
    /\ session[2] # 0
    /\ session[1] # session[2]
    /\ \E k \in Callers : /\ owner[k] = 1
                          /\ callers[k].op = "disconnect"
                          /\ callers[k].pc = "d_wait"
                          /\ tasks[callers[k].aw].hs

\* ---- C29 --------------------------------------------------------------------------
\* C29: in the step in which a connect() call returns True, a session is bound
\* to its client (self.session is not None), also when a disconnect() was called
\* on the client while the call waited.
C29_TrueMeansSession ==
    [][\A k \in Callers :
          (/\ ReturnStep(k)
           /\ callers'[k].op = "connect"
           /\ callers'[k].ret = "true")
          => session'[owner[k]] # 0]_vars

\* ---- C30 --------------------------------------------------------------------------
\* C30: no step takes the state of a client from DISCONNECTING to CONNECTED: after
\* disconnect() has set DISCONNECTING, the state is DISCONNECTED or ERROR before
\* it is CONNECTED again.
C30_DisconnectingNotOverwritten ==
    [][\A c \in Clients : state[c] = DISCONNECTING => state'[c] # CONNECTED]_vars

\* ---- C31 --------------------------------------------------------------------------
\* C31: in every reachable state, a client whose state is DISCONNECTED has no
\* lifecycle task that is created and not ended, and no session bound.
C31_DisconnectedIsQuiet ==
    \A c \in Clients :
        state[c] = DISCONNECTED => (ActiveTasks(c) = {} /\ session[c] = 0)

\* ---- C32 --------------------------------------------------------------------------
\* C32: in the step in which the wait of a connect() times out and its internal
\* disconnect() runs, if the lifecycle task of the client is no longer the one
\* this connect() waited for (that attempt was ended and a later connect() started
\* another), the step leaves the state, the shutdown event and the lifecycle
\* tasks of the client as they were.
C32_StaleTimeoutHarmless ==
    [][\A k \in Callers :
          (/\ callers[k].pc = "c_wait"
           /\ ~callers[k].inner
           /\ callers'[k].inner
           /\ lifecycle_task[owner[k]] # callers[k].ct)
          => /\ state'[owner[k]] = state[owner[k]]
             /\ shutdown_event'[owner[k]] = shutdown_event[owner[k]]
             /\ tasks' = tasks]_vars

\* ---- C33 --------------------------------------------------------------------------
\* The latest attempt of client c failed and its lifecycle task has ended.
FailedAndEnded(c) ==
    /\ lifecycle_task[c] # 0
    /\ TaskDone(lifecycle_task[c])
    /\ tasks[lifecycle_task[c]].fail # "none"

\* C33: a disconnect() called while the state is ERROR, after a failed attempt
\* whose lifecycle task has ended, returns True in the same step and leaves the
\* state DISCONNECTED; and a connect() called in that state (DISCONNECTED, the
\* failed task ended) is accepted: it sets CONNECTING, creates a new lifecycle
\* task and waits.
C33_DisconnectAfterError ==
    [][\A k \in Callers :
          LET c == owner[k] IN
          /\ (CallStep(k, "disconnect") /\ state[c] = ERROR /\ FailedAndEnded(c))
             => /\ callers'[k].pc = "done"
                /\ callers'[k].ret = "true"
                /\ state'[c] = DISCONNECTED
                /\ lifecycle_task'[c] = lifecycle_task[c]
          /\ (CallStep(k, "connect") /\ state[c] = DISCONNECTED /\ FailedAndEnded(c))
             => /\ callers'[k].pc = "c_wait"
                /\ callers'[k].new
                /\ state'[c] = CONNECTING
                /\ lifecycle_task'[c] # 0
                /\ tasks'[lifecycle_task'[c]].pc = "new"
                /\ tasks'[lifecycle_task'[c]].fail = "none"]_vars

\* A connect() failed and returned False, then a disconnect() was called and has
\* returned True without waiting: the state is DISCONNECTED, the failed task has
\* ended, nobody else is in a call.
C33_Witness ==
    /\ state[1] = DISCONNECTED
    /\ FailedAndEnded(1)
    /\ \E k \in Callers :
          /\ owner[k] = 1
          /\ callers[k].pc = "done"
          /\ callers[k].op = "disconnect"
          /\ callers[k].ret = "true"
          /\ callers[k].prev = "false"
          /\ ~callers[k].jt
          /\ \A j \in Callers \ {k} : callers[j].pc = "idle"

\* ---- MCPCallTool.execute -------------------------------------------------------------
MaxCalls == 3        \* tool calls of one request

\* None as a tool call id (the ids of the tool calls of a request are 1, 2, ...).
NoId == 0

\* The tool calls the model runs execute on: with and without a function, a
\* function name and arguments; "echo" is a tool the manager knows, "nope" is not.
ToolCallShapes ==
    {v \in [function : BOOLEAN, name : {"None", "echo", "nope"},
            arguments : {"None", "dict"}] :
        ~v.function => (v.name = "None" /\ v.arguments = "None")}

ToolCallLists ==
    UNION {{[i \in 1..n |-> [id |-> i, function |-> f[i].function, name |-> f[i].name,
                              arguments |-> f[i].arguments]] :
               f \in [1..n -> ToolCallShapes]} : n \in 0..MaxCalls}

\* raw_input: no message, or one message of the user.
RawInputs ==
    {<<>>, <<[role |-> "user", content |-> <<[type |-> "text"]>>]>>}

\* mcp_manager.get_tool_server(tool_name) finds a server.
Known(name) == name = "echo"

\* What server.call_tool(...) and result_future.result() do for one tool call:
\* raise, or hand back a result with this content.
Outcomes ==
    {[raises |-> TRUE, content |-> <<>>],
     [raises |-> FALSE, content |-> <<>>],
     [raises |-> FALSE, content |-> <<[class |-> "TextContent", value |-> "t1"]>>],
     [raises |-> FALSE, content |-> <<[class |-> "TextContent", value |-> "t1"],
                                      [class |-> "TextContent", value |-> "t2"]>>],
     [raises |-> FALSE, content |-> <<[class |-> "TextContent", value |-> "t1"],
                                      [class |-> "ImageContent", value |-> "data"]>>]}

\* What "for item in content" yields for the dict {"error": error_msg}: its key.
ErrorContent == <<[class |-> "str", value |-> "error"]>>

\* The content _create_tool_result gives the result of one item: item.text;
\* item.image_url and item.resource_url, attributes the SDK's ImageContent and
\* EmbeddedResource do not have (AttributeError); str(item) for anything else.
ItemContent(item) ==
    CASE item.class = "TextContent" -> [raises |-> FALSE, content |-> item.value]
      [] item.class \in {"ImageContent", "EmbeddedResource"} ->
             [raises |-> TRUE, content |-> ""]
      [] OTHER -> [raises |-> FALSE, content |-> item.value]

\* _create_tool_result(tool_id, tool_name, content): one LLMToolResultContent per
\* item, or the exception of an item.
CreateToolResult(tool_id, tool_name, content) ==
    IF \E j \in 1..Len(content) : ItemContent(content[j]).raises
    THEN [raises |-> TRUE, results |-> <<>>]
    ELSE [raises |-> FALSE,
          results |-> [j \in 1..Len(content) |->
                          [type |-> "tool_result", id |-> tool_id, name |-> tool_name,
                           content |-> ItemContent(content[j]).content]]]

\* The locals tool_id and tool_name of execute: bound once lines 67-69 ran in
\* some iteration, and kept from one iteration to the next.
NoLocals == [bound |-> FALSE, tool_id |-> NoId, tool_name |-> "None"]

\* The except block: the result is made with tool_id and tool_name if they are
\* in locals(), with None and "unknown" otherwise.
ExceptResult(locs) ==
    CreateToolResult(IF locs.bound THEN locs.tool_id ELSE NoId,
                     IF locs.bound THEN locs.tool_name ELSE "unknown",
                     ErrorContent).results

\* One iteration of the for loop, for tool call call, entered with the locals locs
\* and the list tool_results, and with outcome what the server does if it is
\* called: the locals it leaves, the results it appends and whether it called the
\* server. After a result without items, the log line reads tool_results[-1]: an
\* IndexError while tool_results is empty, caught by the except block.
Iteration(call, outcome, locs, tool_results) ==
    IF ~call.function \/ call.name = "None" \/ call.arguments = "None"
    THEN [locs |-> locs, results |-> ExceptResult(locs), invoked |-> FALSE, failed |-> TRUE]
    ELSE LET own == [bound |-> TRUE, tool_id |-> call.id, tool_name |-> call.name]
             made == CreateToolResult(own.tool_id, own.tool_name, outcome.content)
         IN IF ~Known(call.name)
            THEN [locs |-> own,
                  results |-> CreateToolResult(own.tool_id, own.tool_name,
                                               ErrorContent).results,
                  invoked |-> FALSE, failed |-> TRUE]
            ELSE IF \/ outcome.raises
                    \/ made.raises
                    \/ tool_results \o made.results = <<>>
            THEN [locs |-> own, results |-> ExceptResult(own), invoked |-> TRUE,
                  failed |-> TRUE]
            ELSE [locs |-> own, results |-> made.results, invoked |-> TRUE,
                  failed |-> FALSE]

\* Mutant: a failed or unknown tool call ends the loop (a try statement around the
\* for loop, a return in place of continue).
NextCallStops(i, n, failed) == IF failed THEN n + 1 ELSE i + 1

\* The tool call the loop goes on with after tool call i of n: the try statement
\* stands inside the loop and the unknown-tool branch ends with continue.
NextCall(i, n, failed) == i + 1

\* The for loop from tool call i on: the results appended (results), the tool
\* call each one comes from (origin) and the tool calls the server was called
\* for (invoked).
RECURSIVE Loop(_, _, _, _, _)
Loop(calls, outcomes, i, locs, acc) ==
    IF i > Len(calls)
    THEN acc
    ELSE LET it == Iteration(calls[i], outcomes[i], locs, acc.results)
         IN Loop(calls, outcomes, NextCall(i, Len(calls), it.failed), it.locs,
                 [results |-> acc.results \o it.results,
                  origin |-> acc.origin \o [j \in 1..Len(it.results) |-> i],
                  invoked |-> IF it.invoked THEN Append(acc.invoked, i) ELSE acc.invoked])

\* LLMChatMessage.check_content_type for role "tool": every element of content
\* is an LLMToolResultContent.
CheckContentType(role, content) ==
    role = "tool" => \A j \in 1..Len(content) : content[j].type = "tool_result"

\* execute(raw_input, tool_call): the error response for a request without tool
\* calls; otherwise the loop, and raw_input + [tool_result_message].
Execute(raw, calls, outcomes) ==
    IF calls = <<>>
    THEN [kind |-> "error_response", messages |-> <<>>, invoked |-> <<>>, origin |-> <<>>]
    ELSE LET run == Loop(calls, outcomes, 1, NoLocals,
                         [results |-> <<>>, origin |-> <<>>, invoked |-> <<>>])
         IN IF CheckContentType("tool", run.results)
            THEN [kind |-> "updated_request",
                  messages |-> raw \o <<[role |-> "tool", content |-> run.results]>>,
                  invoked |-> run.invoked, origin |-> run.origin]
            ELSE [kind |-> "raised", messages |-> <<>>, invoked |-> run.invoked,
                  origin |-> run.origin]

\* The block is executed with raw_input raw and the tool calls calls.
ExecuteCall(raw, calls, outcomes) ==
    /\ exec.pc = "idle"
    /\ exec' = [pc |-> "done", raw |-> raw, calls |-> calls,
                out |-> Execute(raw, calls, outcomes)]
    /\ UNCHANGED <<connection_type, rpc, push, state, session, shutdown_event,
                   connected_event, lifecycle_task, tasks, callers, owner, lastret>>

\* The workflow takes the output of the block.
ExecuteReturn ==
    /\ exec.pc = "done"
    /\ exec' = NoExec
    /\ UNCHANGED <<connection_type, rpc, push, state, session, shutdown_event,
                   connected_event, lifecycle_task, tasks, callers, owner, lastret>>

ToolInit ==
    /\ InitClient
    /\ owner = [k \in Callers |-> 1]
    /\ connection_type = [c \in Clients |-> "stdio"]

ToolNext ==
    \/ \E raw \in RawInputs : \E calls \in ToolCallLists :
          \E outcomes \in [1..Len(calls) -> Outcomes] : ExecuteCall(raw, calls, outcomes)
    \/ ExecuteReturn

ToolSpec == ToolInit /\ [][ToolNext]_vars

\* The results of the run that ended: the content of the message execute added.
ToolResults == exec.out.messages[Len(exec.out.messages)].content

\* ---- C34 --------------------------------------------------------------------------
\* The tool call has a function with a name and arguments: the loop reads its name
\* and its id.
Readable(call) == call.function /\ call.name # "None" /\ call.arguments # "None"

\* C34: every result in the output of execute carries the id and the name of the
\* tool call it comes from; the result of a tool call whose processing failed
\* before its id and name were read carries that id or None, and that name or
\* "unknown", never those of another tool call.
C34_ResultsAttributed ==
    (exec.pc = "done" /\ exec.out.kind = "updated_request")
    => \A j \in 1..Len(ToolResults) :
          LET r == ToolResults[j]
              call == exec.calls[exec.out.origin[j]]
          IN IF Readable(call)
             THEN r.id = call.id /\ r.name = call.name
             ELSE r.id \in {call.id, NoId} /\ r.name \in {call.name, "unknown"}

====
